---- MODULE Spec2Model ----
(***************************************************************************)
(* Model of the boozer-analysis recap generator: recap.py (database        *)
(* export, item classification with a JSON cache, recap generation),       *)
(* analysis.py (the same recap generation from JSON files), classify.py   *)
(* (the standalone classification script) and src/normaliser.py (the LLM   *)
(* normaliser with its retry loop, run by src/pipeline.py).                *)
(*                                                                         *)
(* Timestamps are whole days counted from Monday 2024-01-01 (day 0): the   *)
(* weekly bins and day_name() of the code depend on the calendar day only. *)
(* A Python float is the exact fraction <<num, den>>; see PyRound.         *)
(***************************************************************************)
EXTENDS Integers, Sequences, FiniteSets, TLC

VARIABLES
    prog,               \* which program runs: "recap" (recap.py) or "analysis" (analysis.py)
    pc,                 \* position of main()
    src_items,          \* the items table / items_classified.json: [ok, rows]
    src_users,          \* the users table / users.json: [ok, rows]
    src_consumptions,   \* the consumptions table / consumptions.json: [ok, rows]
    items,              \* DataFrame items of main()
    users,              \* DataFrame users of main() (its user_id column)
    consumptions,       \* DataFrame consumptions of main()
    global_out,         \* global.json: <<>> while not written, else <<document>>
    recaps,             \* list recaps of main()
    consumption_counts, \* list consumption_counts of main()
    recaps_out,         \* recaps.json: <<>> while not written, else <<array>>
    ui,                 \* first pass: index of the next user
    ri,                 \* second pass: index of the next recap
    exit_status,        \* process exit status, -1 while running
    diag,               \* diagnostic output of an abort, "" when none
    fn_pc,              \* a single function call under study: "idle", "call", "ret", ...
    fn_args,            \* its arguments
    fn_ret,             \* its return value (for normalize_item: its locals as well)
    api_key,            \* API_KEY is set (truthy)
    cache_file,         \* items_classified.json: the list of cache entries it holds
    argsort_ties,       \* the order the numpy build's quicksort argsort leaves tied keys in
    cprog,              \* classification program: "recap" (classify_items) or "classify" (classify.py)
    cpc,                \* position of the classification run
    cache_dict,         \* cache_dict of classify_items: entries in insertion order, one per key
    item_i,             \* index of the next item of the loop
    classified_items,   \* classified_items of classify_items / results of classify.py
    newly_classified,   \* newly_classified of classify_items
    calls,              \* item ids for which this run posted a request, in order
    failed,             \* item ids whose request failed in this run
    cache_at_start,     \* the cache file as it was when this run started
    run,                \* number of the current run
    hist,               \* one summary per earlier run
    script_out          \* classified_items.json of classify.py: <<>> or <<results>>

mainVars == <<prog, pc, src_items, src_users, src_consumptions, items, users,
              consumptions, global_out, recaps, consumption_counts, recaps_out,
              ui, ri, exit_status, diag>>
fnVars == <<fn_pc, fn_args, fn_ret>>
envVars == <<api_key, cache_file, argsort_ties>>
clsVars == <<cprog, cpc, cache_dict, item_i, classified_items, newly_classified, calls,
             failed, cache_at_start, run, hist, script_out>>
vars == <<mainVars, fnVars, envVars, clsVars>>

(***************************************************************************)
(* Bounds of the model.                                                    *)
(***************************************************************************)
MaxUser == 2
MaxItem == 2
MaxCons == 3
MaxPop == 4
MaxCount == 5
MaxDay == 16
MaxRows == 2
MaxRuns == 2

\* Days on which the consumptions of a whole run of main() are drawn:
\* Wednesday 2024-01-03 and Wednesday 2024-01-17.
MainDays == {2, 16}

UserIds == 1..MaxUser
ItemIds == 1..MaxItem

\* user_id=None of get_top_items / get_weekly_consumptions
NoUser == 0

(***************************************************************************)
(* Generic helpers.                                                        *)
(***************************************************************************)
SeqsUpTo(S, n) == UNION {[1..k -> S] : k \in 0..n}

Min2(a, b) == IF a <= b THEN a ELSE b

SetMin(S) == CHOOSE x \in S : \A y \in S : x <= y

SetMax(S) == CHOOSE x \in S : \A y \in S : y <= x

RECURSIVE SumSeq(_)
SumSeq(s) == IF s = <<>> THEN 0 ELSE Head(s) + SumSeq(Tail(s))

\* d[k] = v on a Python dict held as a record: the key is added when absent.
DictSet(d, k, v) == [x \in DOMAIN d \cup {k} |-> IF x = k THEN v ELSE d[x]]

(***************************************************************************)
(* Calendar: pandas Timestamp.day_name() and strftime("%Y-%m-%d").         *)
(***************************************************************************)
DayNames == <<"Monday", "Tuesday", "Wednesday", "Thursday", "Friday",
              "Saturday", "Sunday">>

\* ts.day_name(): day 0 is Monday 2024-01-01.
day_name(ts) == DayNames[(ts % 7) + 1]

\* Lengths of the months of 2024.
MonthLen == <<31, 29, 31, 30, 31, 30, 31, 31, 30, 31, 30, 31>>

RECURSIVE CivilFrom(_, _)
CivilFrom(m, d) ==
    IF d < MonthLen[m] THEN <<2024, m, d + 1>> ELSE CivilFrom(m + 1, d - MonthLen[m])

\* ts.strftime("%Y-%m-%d") as <<year, month, day>>, for the days of 2024.
strftime(ts) == CivilFrom(1, ts)

(***************************************************************************)
(* Aggregation functions.                                                  *)
(***************************************************************************)
\* consumptions[consumptions["user_id"] == user_id]
UserRows(consumptions_, user_id) ==
    SelectSeq(consumptions_, LAMBDA r : r.user_id = user_id)

get_user_consumption_count(user_id, consumptions_) ==
    Len(UserRows(consumptions_, user_id))

get_user_variety(user_id, consumptions_) ==
    LET user_consumptions == UserRows(consumptions_, user_id)
    IN  Cardinality({user_consumptions[i].item_id : i \in DOMAIN user_consumptions})

MutDayDistributionSeenDays(timestamps) ==
    [d \in {day_name(timestamps[i]) : i \in DOMAIN timestamps} |->
        Cardinality({i \in DOMAIN timestamps : day_name(timestamps[i]) = d})]

get_day_distribution(timestamps) ==
    [d \in {DayNames[i] : i \in 1..7} |->
        Cardinality({i \in DOMAIN timestamps : day_name(timestamps[i]) = d})]

\* None of Python and NaN of pandas: a missing dict key, a missing category
None == "None"

\* The orders in which Series.sort_values (kind="quicksort", not a stable
\* sort) can leave keys of equal count: argsort_ties[p] is the place, among
\* the keys tied with it, of the key that appeared p-th.  Which one a run gets
\* depends on the numpy build (its sort kernels), not on the program.
TieOrders ==
    {p \in [1..MaxItem -> 1..MaxItem] : \A a, b \in 1..MaxItem : p[a] = p[b] => a = b}

\* The order a stable sort gives: tied keys stay in order of first appearance
StableTies == [k \in 1..MaxItem |-> k]

TieRank(p) == IF p \in DOMAIN argsort_ties THEN argsort_ties[p] ELSE p

\* A list built by a comprehension, evaluated once: tolist(s) = s
tolist(s) == s \o <<>>

\* A column is a sequence of cells: <<v>> for the value v, <<>> for a null.
\* The distinct non-null cells of a column, in order of first appearance
Uniques(col) ==
    LET firsts == {i \in DOMAIN col :
                      col[i] # <<>> /\ \A j \in 1..(i - 1) : col[j] # col[i]}
    IN  tolist([k \in 1..Cardinality(firsts) |->
                   col[CHOOSE i \in firsts : Cardinality({j \in firsts : j < i}) = k - 1]])

\* Series.value_counts(): <<value, count>> per distinct value, nulls dropped
\* (dropna=True), by count descending; equal counts in the order the sort
\* leaves them.
value_counts(col) ==
    LET keys == Uniques(col)
        n == tolist([p \in DOMAIN keys |->
                        Cardinality({i \in DOMAIN col : col[i] = keys[p]})])
        before == tolist([p \in DOMAIN keys |->
                             Cardinality({q \in DOMAIN keys :
                                             \/ n[q] > n[p]
                                             \/ n[q] = n[p] /\ TieRank(q) < TieRank(p)})])
        at == tolist([r \in DOMAIN keys |-> CHOOSE p \in DOMAIN keys : before[p] = r - 1])
    IN  tolist([r \in DOMAIN keys |-> <<keys[at[r]][1], n[at[r]]>>])

\* Series.head(n)
head(s, n) == SubSeq(s, 1, IF n < Len(s) THEN n ELSE Len(s))

\* top_n of the calls of gen_user_recap and gen_global_recap
TopItemsN == 5

TopCategoriesN == 1000

\* id_to_name.get(item_id, "Unknown") of recap.py; analysis.py looks the id
\* up with .loc, which raises for an id the items table lacks (no table of
\* the model has a consumption of such an item).
ItemName(items_, item_id) ==
    IF \E i \in DOMAIN items_ : items_[i].item_id = item_id
    THEN items_[CHOOSE i \in DOMAIN items_ : items_[i].item_id = item_id].name
    ELSE "Unknown"

\* get_top_items: list(zip(names, counts)); user_id = NoUser is user_id=None
get_top_items(consumptions_, items_, top_n, user_id) ==
    LET scope == IF user_id # NoUser THEN UserRows(consumptions_, user_id)
                 ELSE consumptions_
        top_items_counts ==
            head(value_counts(tolist([i \in DOMAIN scope |-> <<scope[i].item_id>>])), top_n)
    IN  tolist([r \in DOMAIN top_items_counts |->
                   <<ItemName(items_, top_items_counts[r][1]), top_items_counts[r][2]>>])

\* The category column of pd.merge(user_consumptions, items[["item_id",
\* "category"]], on="item_id", how="left"): null for an item the table lacks
\* or whose category is null.
MergedCategory(items_, item_id) ==
    IF \E i \in DOMAIN items_ : items_[i].item_id = item_id
    THEN LET it == items_[CHOOSE i \in DOMAIN items_ : items_[i].item_id = item_id]
         IN  IF "category" \in DOMAIN it /\ it.category # None THEN <<it.category>>
             ELSE <<>>
    ELSE <<>>

\* get_user_top_categories: list(zip(categories, counts))
get_user_top_categories(user_id, consumptions_, items_, top_n) ==
    LET user_consumptions == UserRows(consumptions_, user_id)
        merged == tolist([i \in DOMAIN user_consumptions |->
                             MergedCategory(items_, user_consumptions[i].item_id)])
    IN  head(value_counts(merged), top_n)

(***************************************************************************)
(* Percentile.                                                             *)
(***************************************************************************)
MutCountLt(value, all_values) ==
    Cardinality({i \in DOMAIN all_values : all_values[i] < value})

\* sum(1 for v in all_values if v <= value)
RECURSIVE CountLe(_, _)
CountLe(value, all_values) ==
    IF all_values = <<>> THEN 0
    ELSE (IF Head(all_values) <= value THEN 1 ELSE 0) + CountLe(value, Tail(all_values))

MutPercentileRank(value, all_values) ==
    IF all_values = <<>> THEN <<0, 1>>
    ELSE <<100 * Cardinality({i \in DOMAIN all_values : all_values[i] <= value}),
           Len(all_values)>>

\* get_percentile: the float result as the exact fraction <<num, den>>.
get_percentile(value, all_values) ==
    LET n_total == Len(all_values)
        n_le == CountLe(value, all_values)
    IN  IF n_total = 0 THEN <<0, 1>>
        ELSE <<100 * n_total - Min2(100 * n_le, 100 * n_total), n_total>>

\* Python 3 round(float) -> int: to the nearest integer, a tie to the even
\* one.  The double (n_le / n_total) * 100 is the exact fraction up to an
\* error far below 1/(2 * n_total), so it rounds as the exact fraction does
\* except possibly at an exact tie; for n_total < 40 the two agree everywhere.
PyRound(f) ==
    LET q == f[1] \div f[2]
        r == f[1] % f[2]
    IN  IF 2 * r < f[2] THEN q
        ELSE IF 2 * r > f[2] THEN q + 1
        ELSE IF q % 2 = 0 THEN q ELSE q + 1

\* round(get_percentile(count, consumption_counts)) of the second pass
PublishedPercentile(value, all_values) == PyRound(get_percentile(value, all_values))

(***************************************************************************)
(* Weekly bins.                                                            *)
(***************************************************************************)
\* pd.Grouper(key="time", freq="W-MON"): a weekly frequency is an end-anchored
\* one, so the bins are closed and labelled on the right: a timestamp falls
\* in the bin (Monday, next Monday] whose label is the first Monday on or
\* after its day (the bin edge is moved to the end of that Monday).
WeekLabel(ts) == 7 * ((ts + 6) \div 7)

MutWeeklyIndexNoFill(user_c) ==
    LET labels == {WeekLabel(user_c[i].time) : i \in DOMAIN user_c}
        start == SetMin(labels)
        end == SetMax(labels)
    IN  IF start = end THEN <<start>> ELSE <<start, end>>

\* weekly_counts after groupby(...).size().sort_index() and the reindex over
\* date_range(start, end, freq): one entry per Monday from the first label to
\* the last, 0 where no row falls.
WeeklyIndex(user_c) ==
    LET labels == {WeekLabel(user_c[i].time) : i \in DOMAIN user_c}
        start == SetMin(labels)
        end == SetMax(labels)
    IN  [k \in 1..((end - start) \div 7 + 1) |-> start + 7 * (k - 1)]

\* get_weekly_consumptions(consumptions, user_id, as_dicts=True) of recap.py;
\* get_user_weekly_consumptions of analysis.py is the user_id branch of it.
get_weekly_consumptions(consumptions_, user_id) ==
    LET user_c == IF user_id # NoUser THEN UserRows(consumptions_, user_id)
                  ELSE consumptions_
    IN  IF user_c = <<>> THEN <<>>
        ELSE LET idx == WeeklyIndex(user_c)
             IN  [k \in DOMAIN idx |->
                    [week_start |-> strftime(idx[k]),
                     consumptions |->
                        Cardinality({i \in DOMAIN user_c : WeekLabel(user_c[i].time) = idx[k]})]]

(***************************************************************************)
(* Recap assembly.                                                         *)
(***************************************************************************)
MutGenUserRecapKeepsEmpty(prog_, user_id, consumptions_, items_) ==
    << [user_id |-> user_id,
        recap |-> [consumptions |->
                     [consumption_count |-> Len(SelectSeq(consumptions_,
                                                LAMBDA r : r.user_id = user_id))]]] >>

\* gen_user_recap: <<>> is the None it returns for a user with no consumption.
gen_user_recap(prog_, user_id, consumptions_, items_) ==
    LET consumption_count == get_user_consumption_count(user_id, consumptions_)
        weekly == get_weekly_consumptions(consumptions_, user_id)
        top == get_top_items(consumptions_, items_, TopItemsN, user_id)
        top_items == tolist([r \in DOMAIN top |->
                                [name |-> top[r][1], consumptions |-> top[r][2]]])
        cats == get_user_top_categories(user_id, consumptions_, items_, TopCategoriesN)
        categories == tolist([r \in DOMAIN cats |->
                                 [category |-> cats[r][1], consumptions |-> cats[r][2]]])
        variety == get_user_variety(user_id, consumptions_)
        user_rows == UserRows(consumptions_, user_id)
        timestamps == [i \in DOMAIN user_rows |-> user_rows[i].time]
        days == get_day_distribution(timestamps)
    IN  IF consumption_count = 0 THEN <<>>
        ELSE IF prog_ = "recap"
        THEN << [user_id |-> user_id,
                 recap |-> [consumptions |-> [consumption_count |-> consumption_count,
                                              variety |-> variety],
                            weekly_counts |-> weekly,
                            top_items |-> top_items,
                            categories |-> categories,
                            days |-> days]] >>
        ELSE << [user_id |-> user_id,
                 recap |-> [consumptions |-> [consumption_count |-> consumption_count,
                                              weekly_counts |-> weekly],
                            top_items |-> top_items,
                            categories |-> categories,
                            variety |-> variety,
                            days |-> days]] >>

\* gen_global_recap: recap.py adds weekly_counts, analysis.py does not.
gen_global_recap(prog_, consumptions_, items_, users_) ==
    LET top == get_top_items(consumptions_, items_, TopItemsN, NoUser)
        top_items == tolist([r \in DOMAIN top |->
                                [name |-> top[r][1], consumptions |-> top[r][2]]])
    IN  IF prog_ = "recap"
        THEN [consumptions |-> [count |-> Len(consumptions_)],
              items |-> [count |-> Len(items_), top_items |-> top_items],
              users |-> [count |-> Len(users_)],
              weekly_counts |-> get_weekly_consumptions(consumptions_, NoUser)]
        ELSE [recap |-> [consumptions |-> [count |-> Len(consumptions_)],
                         items |-> [count |-> Len(items_), top_items |-> top_items],
                         users |-> [count |-> Len(users_)]]]

(***************************************************************************)
(* Classification with the JSON cache (recap.py) and classify.py.          *)
(***************************************************************************)
ItemNames == <<"A", "B", "C", "D", "E", "F">>

\* What requests.post and the parsing of its answer can give: the stripped
\* text of the first candidate, or one of the three failures.
Responses ==
    {[kind |-> "ok", text |-> "Lager"],
     [kind |-> "ok", text |-> ""],
     [kind |-> "request_error", text |-> ""],
     [kind |-> "http_error", text |-> ""],
     [kind |-> "no_candidates", text |-> ""]}

\* d.get(k)
Get(d, k) == IF k \in DOMAIN d THEN d[k] ELSE None

\* a or b on strings and None: a when it is truthy, else b
PyOr(a, b) == IF a # None /\ a # "" THEN a ELSE b

DictHas(d, item_id) == \E i \in DOMAIN d : d[i].item_id = item_id

DictGet(d, item_id) == d[CHOOSE i \in DOMAIN d : d[i].item_id = item_id]

\* cache_dict[str(item_id)] = entry: in place for a key it has, else appended
DictPut(d, entry) ==
    IF DictHas(d, entry.item_id)
    THEN [i \in DOMAIN d |-> IF d[i].item_id = entry.item_id THEN entry ELSE d[i]]
    ELSE Append(d, entry)

\* {str(item['item_id']): item for item in cache_list}
RECURSIVE DictFromList(_)
DictFromList(cache_list) ==
    IF cache_list = <<>> THEN <<>>
    ELSE DictPut(DictFromList(SubSeq(cache_list, 1, Len(cache_list) - 1)),
                 cache_list[Len(cache_list)])

\* load_classified_items_cache: the list of the file; a missing, empty or
\* corrupt file is the empty list.
load_classified_items_cache(file) == file

\* cache_dict[...].get('category') or cache_dict[...].get('classification')
CachedCategory(entry) == PyOr(Get(entry, "category"), Get(entry, "classification"))

\* classification = "error" of the except branch
FailureCategory == "error"

\* The classification a request gives: the text, or "error" on any failure.
CallResult(resp) == IF resp.kind = "ok" THEN resp.text ELSE FailureCategory

\* One pass of the loop body of classify_items over item, on the local state
\* st = [cache_dict, classified_items, newly_classified, calls, failed].
ClassifyOne(st, item, key, resp) ==
    LET cached == DictHas(st.cache_dict, item.item_id)
        classification ==
            IF cached THEN CachedCategory(DictGet(st.cache_dict, item.item_id))
            ELSE IF key THEN CallResult(resp)
            ELSE "uncategorised"
        row == [item_id |-> item.item_id, name |-> item.name, category |-> classification]
    IN  IF cached \/ ~key
        THEN [st EXCEPT !.classified_items = Append(@, row)]
        ELSE [cache_dict |-> DictPut(st.cache_dict, row),
              classified_items |-> Append(st.classified_items, row),
              newly_classified |-> TRUE,
              calls |-> Append(st.calls, item.item_id),
              failed |-> IF resp.kind = "ok" THEN st.failed
                         ELSE st.failed \cup {item.item_id}]

RECURSIVE ClassifyLoop(_, _, _, _, _)
ClassifyLoop(st, items_df, i, key, resps) ==
    IF i > Len(items_df) THEN st
    ELSE ClassifyLoop(ClassifyOne(st, items_df[i], key, resps[i]), items_df, i + 1, key, resps)

\* classify_items as one call: the DataFrame it returns and the cache file
\* it leaves (written once, after the loop, when anything was classified).
classify_items(items_df, file, key, resps) ==
    LET cache_list == load_classified_items_cache(file)
        st == ClassifyLoop([cache_dict |-> DictFromList(cache_list),
                            classified_items |-> <<>>,
                            newly_classified |-> FALSE,
                            calls |-> <<>>,
                            failed |-> {}],
                           items_df, 1, key, resps)
    IN  [df |-> st.classified_items,
         file |-> IF key /\ st.newly_classified THEN st.cache_dict ELSE file,
         calls |-> st.calls]

\* pd.merge(items, classified_items_df[['item_id', 'category']], on='item_id', how='left')
MergeCategory(items_, df) ==
    [i \in DOMAIN items_ |->
        [item_id |-> items_[i].item_id,
         name |-> items_[i].name,
         category |-> IF \E j \in DOMAIN df : df[j].item_id = items_[i].item_id
                      THEN df[CHOOSE j \in DOMAIN df : df[j].item_id = items_[i].item_id].category
                      ELSE None]]

(***************************************************************************)
(* main() of recap.py and of analysis.py.                                  *)
(***************************************************************************)
\* The user_id column of a users table of n rows
UsersTable(n) == [k \in 1..n |-> k]

\* An items table of n rows; items_classified.json, which analysis.py reads,
\* carries the category column already.
ItemsTable(prog_, n) ==
    [i \in 1..n |->
        IF prog_ = "recap" THEN [item_id |-> i, name |-> ItemNames[i]]
        ELSE [item_id |-> i, name |-> ItemNames[i], category |-> "Lager"]]

\* Consumption rows over nu users and ni items (every row references a user
\* and an item of the tables).
ConsRows(nu, ni, days) == [user_id : 1..nu, item_id : 1..ni, time : days]

\* The cache files main() of recap.py can find: none or an empty one, or one
\* with an entry classify_items wrote for item 1 (a category, or the empty
\* text the answer stripped to).
MainCaches ==
    {<<>>,
     <<[item_id |-> 1, name |-> "A", category |-> "Stout"]>>,
     <<[item_id |-> 1, name |-> "A", category |-> ""]>>}

FnIdle == fn_pc = "idle" /\ fn_args = <<>> /\ fn_ret = <<>>

ClsIdle ==
    /\ cprog = "recap"
    /\ cpc = "idle"
    /\ cache_dict = <<>>
    /\ item_i = 1
    /\ classified_items = <<>>
    /\ newly_classified = FALSE
    /\ calls = <<>>
    /\ failed = {}
    /\ cache_at_start = <<>>
    /\ run = 1
    /\ hist = <<>>
    /\ script_out = <<>>

MainIdle ==
    /\ items = <<>>
    /\ users = <<>>
    /\ consumptions = <<>>
    /\ global_out = <<>>
    /\ recaps = <<>>
    /\ consumption_counts = <<>>
    /\ recaps_out = <<>>
    /\ ui = 1
    /\ ri = 1
    /\ exit_status = -1
    /\ diag = ""

Init ==
    /\ prog \in {"recap", "analysis"}
    /\ pc = "load"
    /\ \E nu \in 0..MaxUser, ni \in 0..MaxItem, uok \in BOOLEAN, iok \in BOOLEAN,
          cok \in BOOLEAN :
          /\ src_users = [ok |-> uok, rows |-> IF uok THEN UsersTable(nu) ELSE <<>>]
          /\ src_items = [ok |-> iok, rows |-> IF iok THEN ItemsTable(prog, ni) ELSE <<>>]
          /\ src_consumptions \in
                {[ok |-> cok, rows |-> r] :
                    r \in IF cok THEN SeqsUpTo(ConsRows(nu, ni, MainDays), MaxCons)
                          ELSE {<<>>}}
    /\ api_key \in (IF prog = "recap" THEN BOOLEAN ELSE {FALSE})
    /\ cache_file \in (IF prog = "recap" THEN MainCaches ELSE {<<>>})
    /\ argsort_ties \in TieOrders
    /\ MainIdle
    /\ FnIdle
    /\ ClsIdle

MutOnlyItemsChecked(items_, users_, consumptions_) == items_ = <<>>

\* A table without a row: "if len(table) == 0" of analysis.py; in recap.py
\* the date parsing of export_data(), which raises KeyError on an empty
\* DataFrame (it has no column).
AnyTableEmpty(items_, users_, consumptions_) ==
    items_ = <<>> \/ users_ = <<>> \/ consumptions_ = <<>>

\* recap.py: export_data() raises when a query fails or a table has no row:
\* main() ends with the traceback before anything is assigned.  analysis.py:
\* load_data() inside try/except (the three tables stay empty DataFrames when
\* it raises), then the check of the three tables and exit(1).
LoadData ==
    /\ pc = "load"
    /\ LET loaded == src_items.ok /\ src_users.ok /\ src_consumptions.ok
           empty == AnyTableEmpty(src_items.rows, src_users.rows, src_consumptions.rows)
       IN  IF ~loaded \/ empty
           THEN /\ pc' = "aborted"
                /\ exit_status' = 1
                /\ diag' = IF prog = "analysis" THEN "Loading data failed" ELSE "Traceback"
                /\ IF prog = "analysis" /\ loaded
                   THEN /\ items' = src_items.rows
                        /\ users' = src_users.rows
                        /\ consumptions' = src_consumptions.rows
                   ELSE UNCHANGED <<items, users, consumptions>>
           ELSE /\ pc' = IF prog = "recap" THEN "classify" ELSE "global"
                /\ items' = src_items.rows
                /\ users' = src_users.rows
                /\ consumptions' = src_consumptions.rows
                /\ UNCHANGED <<exit_status, diag>>
    /\ UNCHANGED <<prog, src_items, src_users, src_consumptions, global_out, recaps,
                   consumption_counts, recaps_out, ui, ri>>
    /\ UNCHANGED <<fnVars, envVars, clsVars>>

\* recap.py main(), step 2: load the cache, classify, merge the categories.
ClassifyItems ==
    /\ pc = "classify"
    /\ \E resps \in [1..Len(items) -> Responses] :
          LET r == classify_items(items, cache_file, api_key, resps)
          IN  /\ items' = MergeCategory(items, r.df)
              /\ cache_file' = r.file
    /\ pc' = "global"
    /\ UNCHANGED <<prog, src_items, src_users, src_consumptions, users, consumptions,
                   global_out, recaps, consumption_counts, recaps_out, ui, ri,
                   exit_status, diag>>
    /\ UNCHANGED <<fnVars, api_key, argsort_ties, clsVars>>

\* gen_global_recap and the write of global.json
GlobalRecap ==
    /\ pc = "global"
    /\ global_out' = <<gen_global_recap(prog, consumptions, items, users)>>
    /\ recaps' = <<>>
    /\ consumption_counts' = <<>>
    /\ ui' = 1
    /\ pc' = "first_pass"
    /\ UNCHANGED <<prog, src_items, src_users, src_consumptions, items, users,
                   consumptions, recaps_out, ri, exit_status, diag>>
    /\ UNCHANGED <<fnVars, envVars, clsVars>>

\* analysis.py: "if user_id == 1: continue" at the head of the first pass
SkipsUser(prog_, user_id) == prog_ = "analysis" /\ user_id = 1

\* The body of the first pass for one user, on acc = [recaps, consumption_counts].
FirstPassBody(prog_, user_id, consumptions_, items_, acc) ==
    LET recap == gen_user_recap(prog_, user_id, consumptions_, items_)
    IN  IF SkipsUser(prog_, user_id) \/ Len(recap) = 0 THEN acc
        ELSE [recaps |-> Append(acc.recaps, recap[1]),
              consumption_counts |->
                  Append(acc.consumption_counts,
                         recap[1].recap.consumptions.consumption_count)]

\* One iteration of the first pass.
FirstPassStep ==
    /\ pc = "first_pass"
    /\ ui <= Len(users)
    /\ LET acc == FirstPassBody(prog, users[ui], consumptions, items,
                                [recaps |-> recaps,
                                 consumption_counts |-> consumption_counts])
       IN  /\ recaps' = acc.recaps
           /\ consumption_counts' = acc.consumption_counts
    /\ ui' = ui + 1
    /\ UNCHANGED <<prog, pc, src_items, src_users, src_consumptions, items, users,
                   consumptions, global_out, recaps_out, ri, exit_status, diag>>
    /\ UNCHANGED <<fnVars, envVars, clsVars>>

\* The first pass has gone over every user: the second pass starts.
FirstPassEnd ==
    /\ pc = "first_pass"
    /\ ui > Len(users)
    /\ pc' = "second_pass"
    /\ ri' = 1
    /\ UNCHANGED <<prog, src_items, src_users, src_consumptions, items, users,
                   consumptions, global_out, recaps, consumption_counts, recaps_out,
                   ui, exit_status, diag>>
    /\ UNCHANGED <<fnVars, envVars, clsVars>>

\* One iteration of the second pass: the percentile of one recap.
SecondPassStep ==
    /\ pc = "second_pass"
    /\ ri <= Len(recaps)
    /\ recaps' = [recaps EXCEPT ![ri].recap.consumptions =
                      DictSet(@, "percentile",
                              PublishedPercentile(@.consumption_count, consumption_counts))]
    /\ ri' = ri + 1
    /\ UNCHANGED <<prog, pc, src_items, src_users, src_consumptions, items, users,
                   consumptions, global_out, consumption_counts, recaps_out, ui,
                   exit_status, diag>>
    /\ UNCHANGED <<fnVars, envVars, clsVars>>

\* The write of recaps.json and the end of main().
WriteRecaps ==
    /\ pc = "second_pass"
    /\ ri > Len(recaps)
    /\ recaps_out' = <<recaps>>
    /\ pc' = "done"
    /\ exit_status' = 0
    /\ UNCHANGED <<prog, src_items, src_users, src_consumptions, items, users,
                   consumptions, global_out, recaps, consumption_counts, ui, ri, diag>>
    /\ UNCHANGED <<fnVars, envVars, clsVars>>

Next ==
    \/ LoadData
    \/ ClassifyItems
    \/ GlobalRecap
    \/ FirstPassStep
    \/ FirstPassEnd
    \/ SecondPassStep
    \/ WriteRecaps

Spec == Init /\ [][Next]_vars

(***************************************************************************)
(* Properties of a run of main().                                          *)
(***************************************************************************)
\* Number of rows of the consumptions table with this user_id
RowsOf(user_id) ==
    Cardinality({i \in DOMAIN consumptions : consumptions[i].user_id = user_id})

\* The entries of recaps.json once it is written, else none
Emitted == IF recaps_out = <<>> THEN <<>> ELSE recaps_out[1]

\* C1: a user of the users table with no consumption gets no recap from
\* gen_user_recap and no entry, neither in the list of the first pass nor in
\* the emitted array; every entry of either has consumption_count >= 1.
C1_ZeroActivityUsersHaveNoRecap ==
    /\ \A k \in DOMAIN users :
          RowsOf(users[k]) = 0 =>
            /\ gen_user_recap(prog, users[k], consumptions, items) = <<>>
            /\ \A j \in DOMAIN recaps : recaps[j].user_id # users[k]
            /\ \A j \in DOMAIN Emitted : Emitted[j].user_id # users[k]
    /\ \A j \in DOMAIN recaps :
          /\ recaps[j].recap.consumptions.consumption_count >= 1
          /\ recaps[j].recap.consumptions.consumption_count = RowsOf(recaps[j].user_id)
    /\ \A j \in DOMAIN Emitted :
          Emitted[j].recap.consumptions.consumption_count >= 1

\* A finished run with a zero-activity user and a non-empty emitted array.
C1_Witness ==
    /\ pc = "done"
    /\ \E k \in DOMAIN users : RowsOf(users[k]) = 0
    /\ Len(Emitted) >= 1

\* C2: after a complete run the emitted array holds exactly one entry for
\* every user with at least one consumption, each carrying a percentile;
\* during the first pass no entry carries one.
C2_OneEntryPerActiveUser ==
    /\ pc = "done" =>
          /\ \A k \in DOMAIN users :
                RowsOf(users[k]) >= 1 =>
                  Cardinality({j \in DOMAIN Emitted : Emitted[j].user_id = users[k]}) = 1
          /\ \A j \in DOMAIN Emitted :
                "percentile" \in DOMAIN Emitted[j].recap.consumptions
    /\ pc = "first_pass" =>
          \A j \in DOMAIN recaps : "percentile" \notin DOMAIN recaps[j].recap.consumptions

\* A table that failed to load or loaded without a row
LoadIsBad ==
    \/ ~src_items.ok \/ ~src_users.ok \/ ~src_consumptions.ok
    \/ src_items.rows = <<>> \/ src_users.rows = <<>> \/ src_consumptions.rows = <<>>

\* C10: when a table is empty or fails to load the run aborts with a non-zero
\* status and a diagnostic, and neither global.json nor recaps.json is ever
\* written; an output exists only when the three tables loaded non-empty.
C10_LoadFailureAborts ==
    /\ (LoadIsBad /\ pc # "load") =>
          /\ pc = "aborted"
          /\ exit_status > 0
          /\ diag # ""
    /\ LoadIsBad => (global_out = <<>> /\ recaps_out = <<>>)
    /\ (global_out # <<>> \/ recaps_out # <<>>) =>
          (items # <<>> /\ users # <<>> /\ consumptions # <<>>)
    /\ pc = "done" => (global_out # <<>> /\ recaps_out # <<>> /\ exit_status = 0)

\* An aborted run whose three tables loaded, one of them without a row.
C10_Witness ==
    /\ pc = "aborted"
    /\ src_items.ok /\ src_users.ok /\ src_consumptions.ok
    /\ src_items.rows # <<>>
    /\ src_users.rows # <<>>
    /\ src_consumptions.rows = <<>>

(***************************************************************************)
(* get_percentile and the rounding of the second pass as one call.         *)
(***************************************************************************)
\* main() is not running
MainOff ==
    /\ prog = "recap"
    /\ pc = "off"
    /\ src_items = [ok |-> FALSE, rows |-> <<>>]
    /\ src_users = [ok |-> FALSE, rows |-> <<>>]
    /\ src_consumptions = [ok |-> FALSE, rows |-> <<>>]
    /\ MainIdle

EnvOff == api_key = FALSE /\ cache_file = <<>> /\ argsort_ties = StableTies

InitPercentile ==
    /\ fn_pc = "call"
    /\ fn_args \in [fn : {"get_percentile"},
                     value : 0..(MaxCount + 1),
                     all_values : SeqsUpTo(1..MaxCount, MaxPop)]
    /\ fn_ret = <<>>
    /\ MainOff
    /\ EnvOff
    /\ ClsIdle

\* round(get_percentile(value, all_values))
CallGetPercentile ==
    /\ fn_pc = "call"
    /\ fn_args.fn = "get_percentile"
    /\ fn_ret' = [raw |-> get_percentile(fn_args.value, fn_args.all_values),
                  published |-> PublishedPercentile(fn_args.value, fn_args.all_values)]
    /\ fn_pc' = "ret"
    /\ UNCHANGED <<fn_args, mainVars, envVars, clsVars>>

NextPercentile == CallGetPercentile

SpecPercentile == InitPercentile /\ [][NextPercentile]_vars

Abs(x) == IF x < 0 THEN -x ELSE x

\* C3: the published percentile is 100 - min((n_le / N) * 100, 100) rounded to
\* the nearest integer (an integer at distance at most 1/2 from it), n_le
\* being the number of population values <= v; it is 0 for N = 0; for the
\* population [1, 2, 2, 5] the values 5, 1, 2 get 0, 75, 25.
C3_PublishedPercentile ==
    fn_pc = "ret" =>
        LET v == fn_args.value
            V == fn_args.all_values
            N == Len(V)
            n_le == Cardinality({i \in DOMAIN V : V[i] <= v})
            p == fn_ret.published
        IN  /\ N = 0 => (p = 0 /\ fn_ret.raw[1] = 0)
            /\ N > 0 => 2 * Abs(p * N - (100 * N - Min2(100 * n_le, 100 * N))) <= N
            /\ (V = <<1, 2, 2, 5>> /\ v = 5) => p = 0
            /\ (V = <<1, 2, 2, 5>> /\ v = 1) => p = 75
            /\ (V = <<1, 2, 2, 5>> /\ v = 2) => p = 25

\* The percentile of a value of a population of three, where rounding acts:
\* 100 - 100/3 = 66.67 is published as 67.
C3_Witness ==
    /\ fn_pc = "ret"
    /\ fn_args.all_values = <<1, 2, 5>>
    /\ fn_args.value = 1
    /\ fn_ret.raw = <<200, 3>>
    /\ fn_ret.published = 67

(***************************************************************************)
(* The two passes of main() over larger populations.                       *)
(***************************************************************************)
\* The consumptions table in which user k has counts[k] rows
RECURSIVE RowsFor(_, _)
RowsFor(counts, k) ==
    IF k > Len(counts) THEN <<>>
    ELSE [i \in 1..counts[k] |-> [user_id |-> k, item_id |-> 1, time |-> 2]]
         \o RowsFor(counts, k + 1)

\* main() of recap.py after the load and the classification, for every table
\* of up to MaxPop users with up to MaxCount consumptions each.
InitSecondPass ==
    /\ prog = "recap"
    /\ pc = "global"
    /\ \E counts \in SeqsUpTo(0..MaxCount, MaxPop) :
          /\ SumSeq(counts) > 0
          /\ users = UsersTable(Len(counts))
          /\ consumptions = RowsFor(counts, 1)
    /\ EnvOff
    /\ items = ItemsTable("analysis", 1)
    /\ src_users = [ok |-> TRUE, rows |-> users]
    /\ src_items = [ok |-> TRUE, rows |-> ItemsTable("recap", 1)]
    /\ src_consumptions = [ok |-> TRUE, rows |-> consumptions]
    /\ global_out = <<>>
    /\ recaps = <<>>
    /\ consumption_counts = <<>>
    /\ recaps_out = <<>>
    /\ ui = 1
    /\ ri = 1
    /\ exit_status = -1
    /\ diag = ""
    /\ FnIdle
    /\ ClsIdle

NextSecondPass ==
    \/ GlobalRecap
    \/ FirstPassStep
    \/ FirstPassEnd
    \/ SecondPassStep
    \/ WriteRecaps

SpecSecondPass == InitSecondPass /\ [][NextSecondPass]_vars

\* The published percentile of an entry that carries one
PctOf(entry) == entry.recap.consumptions.percentile

CountOf(entry) == entry.recap.consumptions.consumption_count

HasPct(entry) == "percentile" \in DOMAIN entry.recap.consumptions

\* C4: over one population the published percentile does not increase with
\* consumption_count; a user whose count is the maximum has percentile 0; in
\* a population of one the percentile is 0.
C4_PercentileMonotone ==
    LET done == {j \in DOMAIN recaps : HasPct(recaps[j])}
        top == SetMax({RowsOf(users[k]) : k \in DOMAIN users})
    IN  /\ \A a \in done, b \in done :
              CountOf(recaps[a]) <= CountOf(recaps[b]) => PctOf(recaps[a]) >= PctOf(recaps[b])
        /\ \A a \in done : CountOf(recaps[a]) = top => PctOf(recaps[a]) = 0
        /\ \A a \in done : Len(recaps) = 1 => PctOf(recaps[a]) = 0
        /\ \A a \in done : PctOf(recaps[a]) \in 0..100

\* A finished second pass over three different counts, the percentiles
\* strictly decreasing with the count.
C4_Witness ==
    /\ pc = "done"
    /\ \E a \in DOMAIN recaps, b \in DOMAIN recaps, c \in DOMAIN recaps :
          /\ CountOf(recaps[a]) < CountOf(recaps[b])
          /\ CountOf(recaps[b]) < CountOf(recaps[c])
          /\ PctOf(recaps[a]) > PctOf(recaps[b])
          /\ PctOf(recaps[b]) > PctOf(recaps[c])
          /\ PctOf(recaps[c]) = 0

(***************************************************************************)
(* get_weekly_consumptions as one call.                                    *)
(***************************************************************************)
\* The users whose rows the tables of these calls hold
WeeklyUsers == {1, 2}

InitWeekly ==
    /\ fn_pc = "call"
    /\ fn_args \in [fn : {"get_weekly_consumptions"},
                     consumptions : SeqsUpTo([user_id : WeeklyUsers, item_id : {1},
                                              time : 0..MaxDay], MaxRows),
                     user_id : {NoUser} \cup WeeklyUsers]
    /\ fn_ret = <<>>
    /\ MainOff
    /\ EnvOff
    /\ ClsIdle

\* get_weekly_consumptions(consumptions, user_id=..., as_dicts=True)
CallWeekly ==
    /\ fn_pc = "call"
    /\ fn_args.fn = "get_weekly_consumptions"
    /\ fn_ret' = get_weekly_consumptions(fn_args.consumptions, fn_args.user_id)
    /\ fn_pc' = "ret"
    /\ UNCHANGED <<fn_args, mainVars, envVars, clsVars>>

NextWeekly == CallWeekly

SpecWeekly == InitWeekly /\ [][NextWeekly]_vars

\* The day a "YYYY-MM-DD" of 2024 names
DayOf(date) == CHOOSE d \in 0..365 : strftime(d) = date

\* The timestamps of the scope of the call: the rows of the user, or all rows
ScopeTimes ==
    LET c == fn_args.consumptions
    IN  IF fn_args.user_id = NoUser
        THEN {<<i, c[i].time>> : i \in DOMAIN c}
        ELSE {<<i, c[i].time>> : i \in {j \in DOMAIN c : c[j].user_id = fn_args.user_id}}

\* C5: the result is empty for an empty scope; otherwise it is in
\* chronological order, consecutive week_start values are exactly 7 days
\* apart (no week missing, none twice), it starts and ends at a week with a
\* consumption, weeks without one are there with 0, and the counts sum to the
\* number of consumptions of the scope.
C5_WeeklyNoGaps ==
    fn_pc = "ret" =>
        LET out == fn_ret
        IN  /\ ScopeTimes = {} <=> out = <<>>
            /\ \A k \in DOMAIN out :
                  /\ out[k].consumptions >= 0
                  /\ k < Len(out) =>
                        DayOf(out[k + 1].week_start) - DayOf(out[k].week_start) = 7
            /\ out # <<>> => (out[1].consumptions > 0 /\ out[Len(out)].consumptions > 0)
            /\ SumSeq([k \in DOMAIN out |-> out[k].consumptions]) = Cardinality(ScopeTimes)
            /\ \A x \in ScopeTimes :
                  \E k \in DOMAIN out : Abs(DayOf(out[k].week_start) - x[2]) < 7

\* A call whose result has a zero-filled week between two weeks with a
\* consumption.
C5_Witness ==
    /\ fn_pc = "ret"
    /\ Len(fn_ret) = 3
    /\ fn_ret[1].consumptions = 1
    /\ fn_ret[2].consumptions = 0
    /\ fn_ret[3].consumptions = 1

\* The Monday that starts the Monday-to-Sunday week of a day
WeekStartOf(ts) == 7 * (ts \div 7)

\* C6: every timestamp is counted in the bucket whose week_start is the
\* Monday starting its Monday-to-Sunday week; consumptions on 2024-01-03 and
\* 2024-01-17 give [2024-01-01: 1, 2024-01-08: 0, 2024-01-15: 1].
C6_BucketIsWeekStart ==
    fn_pc = "ret" =>
        LET out == fn_ret
        IN  /\ \A x \in ScopeTimes :
                  \E k \in DOMAIN out : DayOf(out[k].week_start) = WeekStartOf(x[2])
            /\ \A k \in DOMAIN out :
                  out[k].consumptions =
                    Cardinality({x \in ScopeTimes :
                                    WeekStartOf(x[2]) = DayOf(out[k].week_start)})
            /\ (fn_args.user_id = 1 /\
                fn_args.consumptions = <<[user_id |-> 1, item_id |-> 1, time |-> 2],
                                         [user_id |-> 1, item_id |-> 1, time |-> 16]>>) =>
                  out = <<[week_start |-> <<2024, 1, 1>>, consumptions |-> 1],
                          [week_start |-> <<2024, 1, 8>>, consumptions |-> 0],
                          [week_start |-> <<2024, 1, 15>>, consumptions |-> 1]>>

(***************************************************************************)
(* A classification run, item by item: classify_items of recap.py (called  *)
(* by main() after the load) and the script classify.py.  A run can be     *)
(* interrupted (KeyboardInterrupt, a kill) and the program run again.      *)
(***************************************************************************)
\* The entries a cache file can hold for an item: a category written by
\* classify_items (possibly the empty text), or the legacy field written by
\* classify.py.
EntriesOf(i) ==
    {[item_id |-> i, name |-> ItemNames[i], category |-> "Stout"],
     [item_id |-> i, name |-> ItemNames[i], category |-> ""],
     [item_id |-> i, name |-> ItemNames[i], classification |-> "Stout"]}

\* The cache files over the items 1..n: at most one entry per item
RECURSIVE CacheFiles(_)
CacheFiles(n) ==
    IF n = 0 THEN {<<>>}
    ELSE LET rest == CacheFiles(n - 1)
         IN  rest \cup {Append(f, e) : f \in rest, e \in EntriesOf(n)}

InitClassify ==
    /\ cprog \in {"recap", "classify"}
    /\ cpc = "start"
    /\ prog = "recap"
    /\ pc = "classify"
    /\ \E n \in 1..MaxItem :
          /\ items = ItemsTable("recap", n)
          /\ src_items = [ok |-> TRUE, rows |-> items]
    /\ users = UsersTable(1)
    /\ src_users = [ok |-> TRUE, rows |-> users]
    /\ consumptions = <<[user_id |-> 1, item_id |-> 1, time |-> 2]>>
    /\ src_consumptions = [ok |-> TRUE, rows |-> consumptions]
    /\ global_out = <<>>
    /\ recaps = <<>>
    /\ consumption_counts = <<>>
    /\ recaps_out = <<>>
    /\ ui = 1
    /\ ri = 1
    /\ exit_status = -1
    /\ diag = ""
    /\ api_key \in (IF cprog = "recap" THEN BOOLEAN ELSE {FALSE})
    /\ cache_file \in (IF cprog = "recap" THEN CacheFiles(MaxItem) ELSE {<<>>})
    /\ argsort_ties = StableTies
    /\ cache_dict = <<>>
    /\ item_i = 1
    /\ classified_items = <<>>
    /\ newly_classified = FALSE
    /\ calls = <<>>
    /\ failed = {}
    /\ cache_at_start = <<>>
    /\ run = 1
    /\ hist = <<>>
    /\ script_out = <<>>
    /\ FnIdle

clsFrame == <<prog, pc, src_items, src_users, src_consumptions, items, users,
              consumptions, global_out, recaps, consumption_counts, recaps_out,
              ui, ri, diag>>

\* The start of a run: the cache is loaded and the locals are initialised.
ClsStart ==
    /\ cpc = "start"
    /\ cache_at_start' = cache_file
    /\ cache_dict' = IF cprog = "recap"
                     THEN DictFromList(load_classified_items_cache(cache_file))
                     ELSE <<>>
    /\ item_i' = 1
    /\ classified_items' = <<>>
    /\ newly_classified' = FALSE
    /\ calls' = <<>>
    /\ failed' = {}
    /\ cpc' = "loop"
    /\ UNCHANGED <<clsFrame, exit_status, fnVars, envVars, cprog, run, hist, script_out>>

\* One iteration of the loop of classify_items (either branch on API_KEY).
ClsItem ==
    /\ cprog = "recap"
    /\ cpc = "loop"
    /\ item_i <= Len(items)
    /\ \E resp \in Responses :
          LET st == ClassifyOne([cache_dict |-> cache_dict,
                                 classified_items |-> classified_items,
                                 newly_classified |-> newly_classified,
                                 calls |-> calls,
                                 failed |-> failed],
                                items[item_i], api_key, resp)
          IN  /\ cache_dict' = st.cache_dict
              /\ classified_items' = st.classified_items
              /\ newly_classified' = st.newly_classified
              /\ calls' = st.calls
              /\ failed' = st.failed
    /\ item_i' = item_i + 1
    /\ UNCHANGED <<clsFrame, exit_status, fnVars, envVars, cprog, cpc, cache_at_start,
                   run, hist, script_out>>

\* After the loop, nothing new: classify_items returns.
ClsReturn ==
    /\ cprog = "recap"
    /\ cpc = "loop"
    /\ item_i > Len(items)
    /\ ~(api_key /\ newly_classified)
    /\ cpc' = "done"
    /\ UNCHANGED <<clsFrame, exit_status, fnVars, envVars, cprog, cache_dict, item_i,
                   classified_items, newly_classified, calls, failed, cache_at_start,
                   run, hist, script_out>>

\* save_classified_items_cache: open(CLASSIFIED_ITEMS_CACHE, 'w') truncates
\* the file ...
ClsSaveOpen ==
    /\ cprog = "recap"
    /\ cpc = "loop"
    /\ item_i > Len(items)
    /\ api_key /\ newly_classified
    /\ cache_file' = <<>>
    /\ cpc' = "saving"
    /\ UNCHANGED <<clsFrame, exit_status, fnVars, api_key, argsort_ties, cprog, cache_dict, item_i,
                   classified_items, newly_classified, calls, failed, cache_at_start,
                   run, hist, script_out>>

\* ... and json.dump writes list(cache_dict.values()); classify_items returns.
ClsSaveDump ==
    /\ cpc = "saving"
    /\ cache_file' = cache_dict
    /\ cpc' = "done"
    /\ UNCHANGED <<clsFrame, exit_status, fnVars, api_key, argsort_ties, cprog, cache_dict, item_i,
                   classified_items, newly_classified, calls, failed, cache_at_start,
                   run, hist, script_out>>

\* One iteration of the loop of classify.py: any failure ends the script
\* with sys.exit(1).
ScriptItem ==
    /\ cprog = "classify"
    /\ cpc = "loop"
    /\ item_i <= Len(items)
    /\ calls' = Append(calls, items[item_i].item_id)
    /\ \E resp \in Responses :
          IF resp.kind = "ok"
          THEN /\ classified_items' =
                     Append(classified_items,
                            [item_id |-> items[item_i].item_id,
                             name |-> items[item_i].name,
                             classification |-> resp.text])
               /\ item_i' = item_i + 1
               /\ UNCHANGED <<failed, cpc, exit_status>>
          ELSE /\ failed' = failed \cup {items[item_i].item_id}
               /\ cpc' = "exited"
               /\ exit_status' = 1
               /\ UNCHANGED <<classified_items, item_i>>
    /\ UNCHANGED <<clsFrame, fnVars, envVars, cprog, cache_dict, newly_classified,
                   cache_at_start, run, hist, script_out>>

\* The end of classify.py: the results are written to classified_items.json.
ScriptWrite ==
    /\ cprog = "classify"
    /\ cpc = "loop"
    /\ item_i > Len(items)
    /\ script_out' = <<classified_items>>
    /\ cpc' = "done"
    /\ UNCHANGED <<clsFrame, exit_status, fnVars, envVars, cprog, cache_dict, item_i,
                   classified_items, newly_classified, calls, failed, cache_at_start,
                   run, hist>>

\* The process is interrupted (KeyboardInterrupt is no Exception, so the
\* except clause of the loop does not catch it) or killed.
ClsInterrupt ==
    /\ cpc \in {"loop", "saving"}
    /\ cpc' = "interrupted"
    /\ UNCHANGED <<clsFrame, exit_status, fnVars, envVars, cprog, cache_dict, item_i,
                   classified_items, newly_classified, calls, failed, cache_at_start,
                   run, hist, script_out>>

\* recap.py is run again over the same items, after a complete or an
\* interrupted run: a new process, none of the locals of the old one.
ClsRerun ==
    /\ cprog = "recap"
    /\ cpc \in {"done", "interrupted"}
    /\ run < MaxRuns
    /\ hist' = Append(hist, [outcome |-> cpc,
                             cache_before |-> cache_at_start,
                             calls |-> calls,
                             result |-> classified_items])
    /\ run' = run + 1
    /\ cpc' = "start"
    /\ cache_dict' = <<>>
    /\ item_i' = 1
    /\ classified_items' = <<>>
    /\ newly_classified' = FALSE
    /\ calls' = <<>>
    /\ failed' = {}
    /\ UNCHANGED <<clsFrame, exit_status, fnVars, envVars, cprog, cache_at_start,
                   script_out>>

NextClassify ==
    \/ ClsStart
    \/ ClsItem
    \/ ClsReturn
    \/ ClsSaveOpen
    \/ ClsSaveDump
    \/ ScriptItem
    \/ ScriptWrite
    \/ ClsInterrupt
    \/ ClsRerun

SpecClassify == InitClassify /\ [][NextClassify]_vars

\* C7: an item whose request failed gets the category "uncategorised", and
\* the failure never ends the batch.
C7_FailureGivesSentinel ==
    /\ \A j \in DOMAIN classified_items :
          classified_items[j].item_id \in failed =>
            Get(classified_items[j], "category") = "uncategorised"
    /\ failed # {} => cpc # "exited"

\* The item ids a cache file has an entry for
CachedIds(file) == {file[j].item_id : j \in DOMAIN file}

\* C8: when a run is interrupted the cache file still holds every entry it
\* held before that run, and the run after it posts no request for an item
\* that was cached before the interrupted run or classified during it.
C8_ResumeDoesNotReclassify ==
    /\ cpc = "interrupted" =>
          \A j \in DOMAIN cache_at_start :
              \E k \in DOMAIN cache_file : cache_file[k] = cache_at_start[j]
    /\ (run > 1 /\ hist[run - 1].outcome = "interrupted") =>
          \A c \in DOMAIN calls :
              /\ calls[c] \notin CachedIds(hist[run - 1].cache_before)
              /\ \A d \in DOMAIN hist[run - 1].calls : hist[run - 1].calls[d] # calls[c]

\* Every item of the table had a cache entry when the current run started
FullyCached ==
    /\ cprog = "recap"
    /\ cpc \in {"loop", "saving", "done", "interrupted"}
    /\ \A i \in DOMAIN items : items[i].item_id \in CachedIds(cache_at_start)

\* The category a cache entry stores: its category, or the legacy
\* classification when it has no category
StoredCategory(entry) ==
    IF "category" \in DOMAIN entry THEN entry.category ELSE entry.classification

\* C9: over a fully cached item table a run posts no request, gives every
\* item exactly the category its cache entry stores, leaves the cache file
\* unchanged, and a second such run gives the same categories.
C9_FullyCachedIsSticky ==
    FullyCached =>
        /\ calls = <<>>
        /\ cache_file = cache_at_start
        /\ \A j \in DOMAIN classified_items :
              \E k \in DOMAIN cache_at_start :
                  /\ cache_at_start[k].item_id = classified_items[j].item_id
                  /\ classified_items[j].category = StoredCategory(cache_at_start[k])
        /\ (run > 1 /\ cpc = "done" /\ hist[run - 1].outcome = "done"
             /\ \A i \in DOMAIN items :
                    items[i].item_id \in CachedIds(hist[run - 1].cache_before)) =>
              classified_items = hist[run - 1].result

(***************************************************************************)
(* Two runs of main(), the second over a users table that has gained users *)
(* without a consumption.                                                  *)
(***************************************************************************)
\* Most users added between two runs
MaxExtra == 1

\* The start of main() with three tables that load with rows: up to MaxRows
\* consumptions, all on one day.
InitTwoRuns ==
    /\ prog \in {"recap", "analysis"}
    /\ pc = "load"
    /\ \E nu \in 1..MaxUser, ni \in 1..MaxItem :
          /\ src_users = [ok |-> TRUE, rows |-> UsersTable(nu)]
          /\ src_items = [ok |-> TRUE, rows |-> ItemsTable(prog, ni)]
          /\ src_consumptions \in
                {[ok |-> TRUE, rows |-> r] :
                    r \in SeqsUpTo(ConsRows(nu, ni, {2}), MaxRows) \ {<<>>}}
    /\ api_key \in (IF prog = "recap" THEN BOOLEAN ELSE {FALSE})
    /\ cache_file \in (IF prog = "recap" THEN MainCaches ELSE {<<>>})
    /\ argsort_ties \in TieOrders
    /\ MainIdle
    /\ FnIdle
    /\ ClsIdle

\* main() has ended; users register, none of them consumes, and the program
\* is run again.  global.json, recaps.json and the cache file stay as the
\* first run left them until the second run writes them.
MainRerun ==
    /\ pc = "done"
    /\ run < MaxRuns
    /\ \E extra \in 1..MaxExtra :
          src_users' = [src_users EXCEPT !.rows = UsersTable(Len(@) + extra)]
    /\ hist' = Append(hist, [items |-> items,
                             users |-> users,
                             consumptions |-> consumptions,
                             global_out |-> global_out,
                             recaps_out |-> recaps_out])
    /\ run' = run + 1
    /\ pc' = "load"
    /\ items' = <<>>
    /\ users' = <<>>
    /\ consumptions' = <<>>
    /\ recaps' = <<>>
    /\ consumption_counts' = <<>>
    /\ ui' = 1
    /\ ri' = 1
    /\ exit_status' = -1
    /\ diag' = ""
    /\ UNCHANGED <<prog, src_items, src_consumptions, global_out, recaps_out>>
    /\ UNCHANGED <<fnVars, envVars, cprog, cpc, cache_dict, item_i, classified_items,
                   newly_classified, calls, failed, cache_at_start, script_out>>

NextTwoRuns == Next \/ MainRerun

SpecTwoRuns == InitTwoRuns /\ [][NextTwoRuns]_vars

\* C11: when the second run has ended, over the same items (categories
\* included) and consumptions as the first and a users table that differs
\* only by added users without a consumption, global.json and recaps.json
\* (percentiles included) are what the first run wrote.
C11_ZeroActivityUsersChangeNothing ==
    (/\ run = 2
     /\ pc = "done"
     /\ items = hist[1].items
     /\ consumptions = hist[1].consumptions
     /\ Len(users) > Len(hist[1].users)
     /\ SubSeq(users, 1, Len(hist[1].users)) = hist[1].users
     /\ \A k \in (Len(hist[1].users) + 1)..Len(users) : RowsOf(users[k]) = 0)
    => /\ global_out = hist[1].global_out
       /\ recaps_out = hist[1].recaps_out

(***************************************************************************)
(* get_top_items and get_user_variety as one call.                         *)
(***************************************************************************)
InitTopItems ==
    /\ fn_pc = "call"
    /\ fn_args \in [fn : {"get_top_items"},
                     consumptions : SeqsUpTo([user_id : WeeklyUsers, item_id : ItemIds,
                                              time : {2}], MaxCons),
                     items : {ItemsTable("recap", MaxItem)},
                     top_n : {1, TopItemsN},
                     user_id : {NoUser} \cup WeeklyUsers]
    /\ fn_ret = <<>>
    /\ MainOff
    /\ api_key = FALSE
    /\ cache_file = <<>>
    /\ argsort_ties \in TieOrders
    /\ ClsIdle

\* get_top_items(consumptions, items, top_n, user_id) and
\* get_user_variety(user_id, consumptions)
CallTopItems ==
    /\ fn_pc = "call"
    /\ fn_args.fn = "get_top_items"
    /\ fn_ret' = [top_items |-> get_top_items(fn_args.consumptions, fn_args.items,
                                              fn_args.top_n, fn_args.user_id),
                  variety |-> get_user_variety(fn_args.user_id, fn_args.consumptions)]
    /\ fn_pc' = "ret"
    /\ UNCHANGED <<fn_args, mainVars, envVars, clsVars>>

NextTopItems == CallTopItems

SpecTopItems == InitTopItems /\ [][NextTopItems]_vars

\* The item ids of the rows of the scope of the call, in log order
ScopeItems ==
    LET c == fn_args.consumptions
        rows == IF fn_args.user_id = NoUser THEN c
                ELSE SelectSeq(c, LAMBDA r : r.user_id = fn_args.user_id)
    IN  [i \in DOMAIN rows |-> rows[i].item_id]

\* The item id a catalog name stands for
IdOfName(name) ==
    CHOOSE id \in ItemIds :
        \E i \in DOMAIN fn_args.items :
            fn_args.items[i].item_id = id /\ fn_args.items[i].name = name

CategoryOrSentinel(item_id) ==
    LET it == items[CHOOSE i \in DOMAIN items : items[i].item_id = item_id]
    IN  IF "category" \in DOMAIN it /\ it.category # None THEN it.category
        ELSE "uncategorised"

\* C13: in every per-user recap the categories are pairwise different, each
\* category of an item the user consumed (the sentinel for an item without
\* one) is listed with the number of the user's consumptions in it, and the
\* counts of the list sum to the user's consumption_count.
C13_CategoriesCoverEveryConsumption ==
    \A j \in DOMAIN recaps :
        LET cats == recaps[j].recap.categories
            rows == UserRows(consumptions, recaps[j].user_id)
        IN  /\ \A a \in DOMAIN cats, b \in DOMAIN cats :
                  cats[a].category = cats[b].category => a = b
            /\ \A i \in DOMAIN rows :
                  \E a \in DOMAIN cats :
                      /\ cats[a].category = CategoryOrSentinel(rows[i].item_id)
                      /\ cats[a].consumptions =
                            Cardinality({k \in DOMAIN rows :
                                            CategoryOrSentinel(rows[k].item_id) =
                                            cats[a].category})
            /\ SumSeq([a \in DOMAIN cats |-> cats[a].consumptions]) =
                  recaps[j].recap.consumptions.consumption_count

(***************************************************************************)
(* get_day_distribution as gen_user_recap calls it.                        *)
(***************************************************************************)
InitDays ==
    /\ fn_pc = "call"
    /\ fn_args \in [fn : {"get_day_distribution"},
                     consumptions : SeqsUpTo([user_id : WeeklyUsers, item_id : {1},
                                              time : 0..MaxDay], MaxRows),
                     user_id : WeeklyUsers]
    /\ fn_ret = <<>>
    /\ MainOff
    /\ EnvOff
    /\ ClsIdle

\* timestamps = consumptions[consumptions["user_id"] == user_id]["time"].tolist()
\* and get_day_distribution(timestamps), next to the consumption_count of
\* the same user
CallDayDistribution ==
    /\ fn_pc = "call"
    /\ fn_args.fn = "get_day_distribution"
    /\ LET user_rows == UserRows(fn_args.consumptions, fn_args.user_id)
           timestamps == [i \in DOMAIN user_rows |-> user_rows[i].time]
       IN  fn_ret' = [days |-> get_day_distribution(timestamps),
                      consumption_count |->
                          get_user_consumption_count(fn_args.user_id, fn_args.consumptions)]
    /\ fn_pc' = "ret"
    /\ UNCHANGED <<fn_args, mainVars, envVars, clsVars>>

NextDays == CallDayDistribution

SpecDays == InitDays /\ [][NextDays]_vars

\* The seven day names
WeekDays == {"Monday", "Tuesday", "Wednesday", "Thursday", "Friday", "Saturday", "Sunday"}

\* C14: the result has exactly the keys Monday..Sunday; the value of a day is
\* the number of consumptions of the scope on that weekday (day 0 is a
\* Monday), so each consumption is counted under one key; the seven values
\* sum to the consumption_count of the scope; for an empty scope all are 0.
C14_DaysSumToCount ==
    fn_pc = "ret" =>
        LET days == fn_ret.days
            on(w) == Cardinality({x \in ScopeTimes : x[2] % 7 = w})
        IN  /\ DOMAIN days = WeekDays
            /\ days.Monday = on(0) /\ days.Tuesday = on(1) /\ days.Wednesday = on(2)
            /\ days.Thursday = on(3) /\ days.Friday = on(4) /\ days.Saturday = on(5)
            /\ days.Sunday = on(6)
            /\ days.Monday + days.Tuesday + days.Wednesday + days.Thursday
                  + days.Friday + days.Saturday + days.Sunday = fn_ret.consumption_count
            /\ fn_ret.consumption_count = Cardinality(ScopeTimes)
            /\ ScopeTimes = {} => \A d \in WeekDays : days[d] = 0

\* A call for a user with two consumptions, on a Wednesday and on a Sunday.
C14_Witness ==
    /\ fn_pc = "ret"
    /\ fn_ret.consumption_count = 2
    /\ fn_ret.days.Wednesday = 1
    /\ fn_ret.days.Sunday = 1
    /\ fn_ret.days.Monday = 0

(***************************************************************************)
(* classify_items without an API key (classification runs).                *)
(***************************************************************************)
\* C15: in a run of classify_items without API_KEY no request is posted, an
\* item without a cache entry gets "uncategorised", an item with one gets the
\* category the entry stores, the run is never ended by an error, and the
\* cache file stays as the run found it.
C15_NoKeyLeavesCacheAlone ==
    (cprog = "recap" /\ ~api_key /\ cpc # "start") =>
        /\ calls = <<>>
        /\ failed = {}
        /\ cpc # "exited"
        /\ cache_file = cache_at_start
        /\ \A j \in DOMAIN classified_items :
              LET id == classified_items[j].item_id
              IN  IF id \in CachedIds(cache_at_start)
                  THEN \E k \in DOMAIN cache_at_start :
                          /\ cache_at_start[k].item_id = id
                          /\ classified_items[j].category = StoredCategory(cache_at_start[k])
                  ELSE classified_items[j].category = "uncategorised"

(***************************************************************************)
(* The population of the percentiles (runs of main()).                     *)
(***************************************************************************)
\* The users of the users table with at least one consumption
ActiveUsers == {k \in DOMAIN users : RowsOf(users[k]) > 0}

\* C16: during the first pass no entry carries a percentile; once it is over,
\* consumption_counts holds, for every value, as many copies as there are
\* users with that many (at least one) consumptions, one per entry of recaps
\* and in the same order, and it does not change while percentiles are set.
C16_PopulationIsAllActiveUsers ==
    /\ pc = "first_pass" =>
          \A j \in DOMAIN recaps : ~HasPct(recaps[j])
    /\ pc \in {"second_pass", "done"} =>
          /\ Len(consumption_counts) = Len(recaps)
          /\ \A j \in DOMAIN recaps : consumption_counts[j] = CountOf(recaps[j])
          /\ \A v \in 0..MaxCons :
                Cardinality({j \in DOMAIN consumption_counts : consumption_counts[j] = v})
                  = Cardinality({k \in ActiveUsers : RowsOf(users[k]) = v})
          /\ \A j \in DOMAIN recaps :
                HasPct(recaps[j]) =>
                  PctOf(recaps[j]) = PublishedPercentile(CountOf(recaps[j]), consumption_counts)

(***************************************************************************)
(* LLMNormalizer.normalize_item of src/normaliser.py, called by            *)
(* pipeline.py: the prompt, _call_llm with its retry loop, _parse_json.    *)
(***************************************************************************)
\* Largest max_retries of a configuration
MaxRetries == 3

\* What one chat.completions.create call and the reading of its answer can
\* do: return a text (JSON, JSON inside other text, no JSON), or raise.
LlmAnswers == {"json", "json_in_text", "no_json"}

LlmErrors == {"timeout", "rate_limit", "api_error"}

\* normalize_item is called with a configuration; attempt is the loop
\* variable of _call_llm, tried the outcomes of the attempts made so far,
\* slept the seconds spent in time.sleep.
InitRetry ==
    /\ fn_pc = "call"
    /\ fn_args \in [fn : {"normalize_item"},
                     max_retries : 0..MaxRetries,
                     delay_between_retries : {1}]
    /\ fn_ret = [attempt |-> 0, tried |-> <<>>, slept |-> 0, out |-> None]
    /\ MainOff
    /\ EnvOff
    /\ ClsIdle

\* normalize_item builds the prompt and enters _call_llm.  With range(0) the
\* loop has no iteration: _call_llm returns None and json.loads(None) raises
\* TypeError, which _parse_json does not catch.
LlmEnter ==
    /\ fn_pc = "call"
    /\ fn_args.fn = "normalize_item"
    /\ fn_pc' = IF fn_args.max_retries = 0 THEN "raised" ELSE "attempt"
    /\ fn_ret' = IF fn_args.max_retries = 0 THEN [fn_ret EXCEPT !.out = "TypeError"]
                 ELSE fn_ret
    /\ UNCHANGED <<fn_args, mainVars, envVars, clsVars>>

\* One iteration of the loop of _call_llm whose call returns: _call_llm
\* returns the text and _parse_json parses it or raises ValueError.
LlmAttemptReturns ==
    /\ fn_pc = "attempt"
    /\ \E answer \in LlmAnswers :
          /\ fn_ret' = [fn_ret EXCEPT !.tried = Append(@, answer),
                                      !.out = IF answer = "no_json" THEN "ValueError"
                                              ELSE "parsed"]
          /\ fn_pc' = IF answer = "no_json" THEN "raised" ELSE "ret"
    /\ UNCHANGED <<fn_args, mainVars, envVars, clsVars>>

\* One iteration whose call raises: the except branch re-raises on the last
\* attempt and goes to time.sleep otherwise.
LlmAttemptRaises ==
    /\ fn_pc = "attempt"
    /\ \E error \in LlmErrors :
          /\ fn_ret' = [fn_ret EXCEPT !.tried = Append(@, error),
                                      !.out = IF fn_ret.attempt = fn_args.max_retries - 1
                                              THEN error ELSE @]
          /\ fn_pc' = IF fn_ret.attempt = fn_args.max_retries - 1 THEN "raised"
                      ELSE "sleep"
    /\ UNCHANGED <<fn_args, mainVars, envVars, clsVars>>

\* time.sleep(self.config.delay_between_retries), then the next iteration
LlmSleep ==
    /\ fn_pc = "sleep"
    /\ fn_ret' = [fn_ret EXCEPT !.slept = @ + fn_args.delay_between_retries,
                                !.attempt = @ + 1]
    /\ fn_pc' = "attempt"
    /\ UNCHANGED <<fn_args, mainVars, envVars, clsVars>>

NextRetry ==
    \/ LlmEnter
    \/ LlmAttemptReturns
    \/ LlmAttemptRaises
    \/ LlmSleep

SpecRetry == InitRetry /\ [][NextRetry]_vars

\* C17: at most max_retries attempts are made; only the last attempt made can
\* be a successful one; every failed attempt but the last possible one is
\* followed by the delay; no error of a call reaches the caller; and when
\* every attempt has failed the call returns with the sentinel category.
C17_RetriesThenSentinel ==
    fn_args.fn = "normalize_item" =>
        LET tried == fn_ret.tried
            fails == {i \in DOMAIN tried : tried[i] \in LlmErrors}
        IN  /\ Len(tried) <= fn_args.max_retries
            /\ \A i \in DOMAIN tried : i < Len(tried) => i \in fails
            /\ fn_pc \in {"attempt", "ret"} =>
                  fn_ret.slept = fn_args.delay_between_retries * Cardinality(fails)
            /\ fn_pc = "raised" => fn_ret.out \notin LlmErrors
            /\ (fn_args.max_retries > 0 /\ Cardinality(fails) = fn_args.max_retries) =>
                  (fn_pc = "ret" /\ fn_ret.out = "uncategorised")

====
